---------------------------- MODULE Spec2Model ----------------------------
(***************************************************************************)
(* A model of whisper-gui (src/main.py): the PanelsSwitcher sizer, the     *)
(* HomePanel / SettingsPanel event handlers, the transcription worker      *)
(* thread started by HomePanel.transcribe, and the two pure helpers        *)
(* add_newlines and is_valid_filename.                                     *)
(*                                                                         *)
(* Text is modelled by TLA+ strings; the character at position i of s is   *)
(* SubSeq(s, i, i).  Python's None is the model value None.                *)
(***************************************************************************)
EXTENDS Integers, Sequences, FiniteSets, TLC

VARIABLES
    panels,          \* PanelsSwitcher.panels: the list of managed windows
    visible,         \* wx.Window.IsShown() of every window
    selected_file,   \* HomePanel.selected_file
    title_entry,     \* HomePanel.title_entry.GetValue()
    error_label,     \* HomePanel.error_label.GetLabel()
    colour,          \* HomePanel.error_label.GetForegroundColour()
    environ,         \* os.environ['OPENAI_API_KEY'], None when unset
    api_key,         \* openai.api_key
    threads,         \* the threading.Thread objects started by transcribe
    files,           \* the files written into the working directory
    string,          \* the argument add_newlines is called with
    wrapped,         \* the value add_newlines returned for it
    last             \* the operation that produced the current state

switcherVars == <<panels, visible>>
homeVars == <<selected_file, title_entry, error_label, colour>>
keyVars == <<environ, api_key>>
jobVars == <<threads, files>>
wrapVars == <<string, wrapped>>
vars == <<panels, visible, selected_file, title_entry, error_label, colour,
          environ, api_key, threads, files, string, wrapped, last>>

None == "<None>"

----------------------------------------------------------------------------
(* Text helpers *)

\* c * n of Python: the character c repeated n times.
RECURSIVE Rep(_, _)
Rep(c, n) == IF n = 0 THEN "" ELSE c \o Rep(c, n - 1)

\* The characters str.split() treats as separators.
Whitespace == {" ", "\n", "\t"}

\* str.split(): the maximal runs of non-whitespace characters, in order.
split(s) ==
    LET n == Len(s)
        IsSpace(i) == SubSeq(s, i, i) \in Whitespace
        Starts == {i \in 1..n : ~IsSpace(i) /\ (i = 1 \/ IsSpace(i - 1))}
        Ends == {j \in 1..n : ~IsSpace(j) /\ (j = n \/ IsSpace(j + 1))}
        Nth(ps, k) == CHOOSE p \in ps : Cardinality({q \in ps : q <= p}) = k
    IN  [k \in 1..Cardinality(Starts) |-> SubSeq(s, Nth(Starts, k), Nth(Ends, k))]

\* sep.join(items)
RECURSIVE join(_, _)
join(sep, items) ==
    IF Len(items) = 0 THEN ""
    ELSE IF Len(items) = 1 THEN items[1]
    ELSE items[1] \o sep \o join(sep, Tail(items))

\* The for loop of add_newlines from word i on: the lines closed so far and
\* the line being filled.
RECURSIVE WrapLoop(_, _, _, _, _)
WrapLoop(words, i, lines, current_line, line_length) ==
    IF i > Len(words)
    THEN [lines |-> lines, current_line |-> current_line]
    ELSE LET word == words[i] IN
         IF Len(current_line) + Len(word) <= line_length
         THEN WrapLoop(words, i + 1, lines,
                       IF current_line # "" THEN current_line \o " " \o word
                                            ELSE word,
                       line_length)
         ELSE WrapLoop(words, i + 1, Append(lines, current_line), word,
                       line_length)

add_newlines(s, line_length) ==
    LET r == WrapLoop(split(s), 1, <<>>, "", line_length)
        lines == IF r.current_line # "" THEN Append(r.lines, r.current_line)
                                        ELSE r.lines
    IN  join("\n", lines)

\* The column send_audio wraps the error description at.
LineLength == 50


----------------------------------------------------------------------------
(* PanelsSwitcher *)

\* The windows of the application, and one more window that some caller of
\* the switcher may pass to it.
AppWindows == {"home_panel", "settings_panel"}
Windows == AppWindows \cup {"other_panel"}

\* The longest list of panels add_panel grows the switcher to.
MaxPanels == 4

Range(f) == {f[i] : i \in DOMAIN f}

\* The lists of distinct windows a caller can hand to the constructor
\* (wx refuses a window that is already in a sizer; panels[0] of an empty
\* list raises IndexError, so no switcher is built from one).
PanelLists ==
    {ps \in UNION {[1..n -> Windows] : n \in 1..Cardinality(Windows)} :
        \A i, j \in DOMAIN ps : ps[i] = ps[j] => i = j}

\* The for loop of Show from position i on.
RECURSIVE ShowLoop(_, _, _, _)
ShowLoop(ps, i, vis, panel) ==
    IF i > Len(ps) THEN vis
    ELSE ShowLoop(ps, i + 1, [vis EXCEPT ![ps[i]] = (ps[i] = panel)], panel)

\* Show with its hiding branch lost.
ShowWithoutHide(ps, vis, panel) ==
    [w \in DOMAIN vis |-> IF w = panel /\ w \in Range(ps) THEN TRUE ELSE vis[w]]

\* PanelsSwitcher.Show(panel): the visibility of the windows after the call.
Show(ps, vis, panel) == ShowLoop(ps, 1, vis, panel)

\* PanelsSwitcher.__init__(parent, panels), the windows shown as vis before.
SwitcherInit(ps, vis) == Show(ps, vis, ps[1])

\* PanelsSwitcher.add_panel(panel): the list after the call.
AddPanel(ps, panel) == Append(ps, panel)

\* A caller calls sizer.Show(panel), with any window.
CallShow ==
    \E panel \in Windows :
        /\ visible' = Show(panels, visible, panel)
        /\ last' = [op |-> "Show", by |-> "ui", panel |-> panel,
                    before |-> visible]
        /\ UNCHANGED <<panels, homeVars, keyVars, jobVars, wrapVars>>

\* A caller calls sizer.add_panel(panel), with any window.
add_panel ==
    \E panel \in Windows :
        /\ Len(panels) < MaxPanels
        /\ panels' = AddPanel(panels, panel)
        /\ last' = [op |-> "add_panel", by |-> "ui", panel |-> panel,
                    before |-> visible]
        /\ UNCHANGED <<visible, homeVars, keyVars, jobVars, wrapVars>>

\* What the variables of the other components hold while one runs alone.
IdleHome ==
    /\ selected_file = None
    /\ title_entry = ""
    /\ error_label = ""
    /\ colour = "(255, 0, 0)"

IdleKey == environ = None /\ api_key = None

IdleJobs == threads = <<>> /\ files = <<>>

IdleWrap == string = "" /\ wrapped = None

InitSwitcher ==
    /\ \E ps \in PanelLists : \E vis \in [Windows -> BOOLEAN] :
          /\ panels = ps
          /\ visible = SwitcherInit(ps, vis)
    /\ IdleHome /\ IdleKey /\ IdleJobs /\ IdleWrap
    /\ last = [op |-> "__init__", by |-> "ui"]

NextSwitcher == CallShow \/ add_panel

SpecSwitcher == InitSwitcher /\ [][NextSwitcher]_vars

----------------------------------------------------------------------------
(* HomePanel, SettingsPanel and the worker thread of HomePanel.transcribe *)

\* The most threads transcribe starts in one run of the model.
MaxThreads == 1

\* What the user can pick in the file dialog, type as a title, type as a key.
Paths == {"C:\\audio\\talk.mp3"}
Titles == {"", "My Report", "a/b"}
KeyEntries == {"", "sk-test"}

\* What the remote API can answer: a transcript, or an error description.
Transcripts == {"hello world"}
Descriptions ==
    {"rate limited",
     "You exceeded your current quota, please check your plan and billing details."}

\* What datetime.datetime.now() can return, and os.getcwd().
Clock == {[Y |-> 2024, m |-> 3, d |-> 9, H |-> 14, M |-> 5, S |-> 7]}
Cwd == "C:\\whisper"

Red == "(255, 0, 0)"
Green == "(30, 117, 22)"

\* The characters that end a directory name in a path.
Separators == {"/", "\\"}

\* os.path.basename(p): what follows the last separator of p.
RECURSIVE BasenameFrom(_, _, _)
BasenameFrom(p, i, acc) ==
    IF i > Len(p) THEN acc
    ELSE LET c == SubSeq(p, i, i) IN
         BasenameFrom(p, i + 1, IF c \in Separators THEN "" ELSE acc \o c)

basename(p) == BasenameFrom(p, 1, "")

\* is_valid_filename(filename): basename raises no OSError for any str, and
\* its value is dropped.
is_valid_filename(filename) ==
    LET dropped == basename(filename) IN TRUE

\* Decimal digits of n, and n zero-padded to width w (strftime's %m, %d, ...).
RECURSIVE Digits(_)
Digits(n) ==
    LET d == SubSeq("0123456789", (n % 10) + 1, (n % 10) + 1) IN
    IF n < 10 THEN d ELSE Digits(n \div 10) \o d

Pad(n, w) == Rep("0", w - Len(Digits(n))) \o Digits(n)

\* current_datetime.strftime("%Y_%m_%d_%H_%M_%S")
strftime(t) ==
    Pad(t.Y, 4) \o "_" \o Pad(t.m, 2) \o "_" \o Pad(t.d, 2) \o "_" \o
    Pad(t.H, 2) \o "_" \o Pad(t.M, 2) \o "_" \o Pad(t.S, 2)

\* The local variable title of save_transcript, for the text of the title
\* entry and the time of the call.
SaveTitle(entry, now) ==
    IF is_valid_filename(entry) /\ entry # ""
    THEN entry
    ELSE "transcript_" \o strftime(now)

\* The label save_transcript sets.
SavedLabel(title) ==
    "Saved transcript to '" \o Cwd \o "\\" \o title \o ".txt'"

\* The label send_audio passes to notify_error.
ErrorLabel(e) == "OPENAI error: " \o add_newlines(e, LineLength)

\* Python truthiness of a str or None.
Truthy(x) == x # None /\ x # ""

\* transcribe with the test of the key lost.
TranscribeStartsWithoutKey(file, key) == Truthy(file)

\* transcribe with the key tested against None, not for truth.
TranscribeStartsOnEmptyKey(file, key) == Truthy(file) /\ key # None

\* HomePanel.transcribe: whether the two tests let the thread start.
TranscribeStarts(file, key) == Truthy(file) /\ Truthy(key)

\* HomePanel.transcribe: the message of notify_error when no thread starts.
TranscribeError(file, key) ==
    IF Truthy(file) THEN "No API key provided." ELSE "No audio file selected."

\* A thread as threading.Thread(target=self.send_audio) creates it.
NewThread == [pc |-> "open", e |-> None, text |-> None, title |-> None]

\* The file name gets the text.
Write(fs, name, text) ==
    [n \in DOMAIN fs \cup {name} |-> IF n = name THEN text ELSE fs[n]]

\* Whether some character of s is in set cs.
HasChar(s, cs) == \E i \in 1..Len(s) : SubSeq(s, i, i) \in cs

\* The handlers, each run to its end by the one UI thread.  A button of a
\* hidden panel gets no click.

select_audio_file ==
    /\ visible["home_panel"]
    /\ \E path \in Paths \cup {None} :
          \* None: the dialog was cancelled
          /\ selected_file' = IF path # None THEN path ELSE selected_file
          /\ last' = [op |-> "select_audio_file", by |-> "ui"]
    /\ error_label' = ""
    /\ UNCHANGED <<switcherVars, title_entry, colour, keyVars, jobVars, wrapVars>>

\* The user types into the title entry.
edit_title ==
    /\ visible["home_panel"]
    /\ \E t \in Titles : title_entry' = t /\ t # title_entry
    /\ last' = [op |-> "edit_title", by |-> "ui"]
    /\ UNCHANGED <<switcherVars, selected_file, error_label, colour, keyVars,
                   jobVars, wrapVars>>

transcribe ==
    /\ visible["home_panel"]
    /\ IF TranscribeStarts(selected_file, environ)
       THEN /\ Len(threads) < MaxThreads
            /\ threads' = Append(threads, NewThread)
            /\ error_label' = ""
            /\ UNCHANGED colour
       ELSE /\ error_label' = TranscribeError(selected_file, environ)
            /\ colour' = Red
            /\ UNCHANGED threads
    /\ last' = [op |-> "transcribe", by |-> "ui", file |-> selected_file,
                key |-> environ, threads |-> Len(threads)]
    /\ UNCHANGED <<switcherVars, selected_file, title_entry, keyVars, files,
                   wrapVars>>

show_settings ==
    /\ visible["home_panel"]
    /\ error_label' = ""
    /\ visible' = Show(panels, visible, "settings_panel")
    /\ last' = [op |-> "show_settings", by |-> "ui"]
    /\ UNCHANGED <<panels, selected_file, title_entry, colour, keyVars, jobVars,
                   wrapVars>>

save_api_key ==
    /\ visible["settings_panel"]
    /\ \E entry \in KeyEntries :
          /\ environ' = entry
          /\ api_key' = entry
          /\ last' = [op |-> "save_api_key", by |-> "ui", entry |-> entry]
    /\ visible' = Show(panels, visible, "home_panel")
    /\ UNCHANGED <<panels, homeVars, jobVars, wrapVars>>

return_to_home ==
    /\ visible["settings_panel"]
    /\ visible' = Show(panels, visible, "home_panel")
    /\ last' = [op |-> "return_to_home", by |-> "ui"]
    /\ UNCHANGED <<panels, homeVars, keyVars, jobVars, wrapVars>>

\* The characters a file name cannot hold on some platform: with one of
\* them in the name, open(name, 'w') may raise.
PathInvalid == Separators \cup {":", "*", "?", "\"", "<", ">", "|"}

\* The steps of send_audio in thread i.  They run between the handlers of
\* the UI thread, in any order with the steps of the other threads.

Step(i, pc, op) ==
    /\ i \in DOMAIN threads
    /\ threads[i].pc = pc
    /\ last' = [op |-> op, by |-> "worker", thread |-> i]

\* with open(self.selected_file, "rb") as audio_file
send_audio_open(i) ==
    /\ Step(i, "open", "send_audio_open")
    /\ \E ok \in BOOLEAN :
          threads' = [threads EXCEPT ![i].pc = IF ok THEN "request" ELSE "raised"]
    /\ UNCHANGED <<switcherVars, homeVars, keyVars, files, wrapVars>>

\* openai.Audio.transcribe("whisper-1", audio_file): a transcript, which takes
\* a key, or an OpenAIError
send_audio_request(i) ==
    /\ Step(i, "request", "send_audio_request")
    /\ \/ /\ Truthy(api_key)
          /\ \E t \in Transcripts :
                threads' = [threads EXCEPT ![i].pc = "save", ![i].text = t]
       \/ \E d \in Descriptions :
             threads' = [threads EXCEPT ![i].pc = "notify_colour", ![i].e = d]
    /\ UNCHANGED <<switcherVars, homeVars, keyVars, files, wrapVars>>

\* notify_error: self.error_label.SetForegroundColour((255, 0, 0))
notify_error_colour(i) ==
    /\ Step(i, "notify_colour", "notify_error_colour")
    /\ colour' = Red
    /\ threads' = [threads EXCEPT ![i].pc = "notify_label"]
    /\ UNCHANGED <<switcherVars, selected_file, title_entry, error_label,
                   keyVars, files, wrapVars>>

\* notify_error: self.error_label.SetLabel(msg); then save_transcript('test')
\* is called
notify_error_label(i) ==
    /\ Step(i, "notify_label", "notify_error_label")
    /\ error_label' = ErrorLabel(threads[i].e)
    /\ threads' = [threads EXCEPT ![i].pc = "save", ![i].text = "test"]
    /\ UNCHANGED <<switcherVars, selected_file, title_entry, colour, keyVars,
                   files, wrapVars>>

\* save_transcript: the title is chosen and the file written
save_transcript_write(i) ==
    /\ Step(i, "save", "save_transcript_write")
    /\ \E now \in Clock : \E ok \in BOOLEAN :
          LET title == SaveTitle(title_entry, now) IN
          /\ ok \/ HasChar(title, PathInvalid)
          /\ threads' = [threads EXCEPT ![i].title = title,
                            ![i].pc = IF ok THEN "saved_colour" ELSE "raised"]
          /\ files' = IF ok THEN Write(files, title \o ".txt", threads[i].text)
                            ELSE files
    /\ UNCHANGED <<switcherVars, homeVars, keyVars, wrapVars>>

\* save_transcript: self.error_label.SetForegroundColour((30, 117, 22))
save_transcript_colour(i) ==
    /\ Step(i, "saved_colour", "save_transcript_colour")
    /\ colour' = Green
    /\ threads' = [threads EXCEPT ![i].pc = "saved_label"]
    /\ UNCHANGED <<switcherVars, selected_file, title_entry, error_label,
                   keyVars, files, wrapVars>>

\* save_transcript: self.error_label.SetLabel(...); send_audio returns
save_transcript_label(i) ==
    /\ Step(i, "saved_label", "save_transcript_label")
    /\ error_label' = SavedLabel(threads[i].title)
    /\ threads' = [threads EXCEPT ![i].pc = "done"]
    /\ UNCHANGED <<switcherVars, selected_file, title_entry, colour, keyVars,
                   files, wrapVars>>

\* TranscriptionApp.__init__: both panels are created shown, the switcher is
\* built and home_panel shown.  openai reads the key from the environment
\* when it is imported.
InitialKeys == {None, "sk-test"}

Init ==
    /\ panels = <<"home_panel", "settings_panel">>
    /\ visible = Show(panels, SwitcherInit(panels, [w \in AppWindows |-> TRUE]),
                      "home_panel")
    /\ selected_file = None
    /\ title_entry = ""
    /\ error_label = ""
    /\ colour = Red
    /\ environ \in InitialKeys
    /\ api_key = environ
    /\ IdleJobs /\ IdleWrap
    /\ last = [op |-> "__init__", by |-> "ui"]

Next ==
    \/ select_audio_file
    \/ edit_title
    \/ transcribe
    \/ show_settings
    \/ save_api_key
    \/ return_to_home
    \/ \E i \in 1..MaxThreads :
          \/ send_audio_open(i)
          \/ send_audio_request(i)
          \/ notify_error_colour(i)
          \/ notify_error_label(i)
          \/ save_transcript_write(i)
          \/ save_transcript_colour(i)
          \/ save_transcript_label(i)

Spec == Init /\ [][Next]_vars

----------------------------------------------------------------------------
(* add_newlines alone, on strings of up to MaxWords words *)

MaxWords == 3

\* The words: one character repeated, of a length around the line length.
WordLengths == {1, 5, 45, 50, 51}
Words == {Rep(c, n) : c \in {"a", "b"}, n \in WordLengths}

\* What stands before, between and after the words.
Margins == {"", " "}
Gaps == {" ", " \n"}

WordLists == UNION {[1..n -> Words] : n \in 0..MaxWords}

Strings ==
    {lead \o join(gap, ws) \o trail :
        lead \in Margins, gap \in Gaps, ws \in WordLists, trail \in Margins}
    \cup Descriptions

IdleSwitcher == panels = <<>> /\ visible = <<>>

call_add_newlines ==
    /\ wrapped = None
    /\ wrapped' = add_newlines(string, LineLength)
    /\ last' = [op |-> "add_newlines", by |-> "ui"]
    /\ UNCHANGED <<switcherVars, homeVars, keyVars, jobVars, string>>

InitWrap ==
    /\ string \in Strings
    /\ wrapped = None
    /\ IdleSwitcher /\ IdleHome /\ IdleKey /\ IdleJobs
    /\ last = [op |-> "__init__", by |-> "ui"]

NextWrap == call_add_newlines

SpecWrap == InitWrap /\ [][NextWrap]_vars

----------------------------------------------------------------------------
(* The claims *)

Managed == Range(panels)

\* The managed windows of before the last add_panel.
ManagedBefore == Range(SubSeq(panels, 1, Len(panels) - 1))

\* Whether the last transcribe started a thread.
Started == Len(threads) = last.threads + 1

\* Whether text sub occurs in text s.
Contains(s, sub) ==
    \E i \in 1..(Len(s) - Len(sub) + 1) : SubSeq(s, i, i + Len(sub) - 1) = sub

\* The lines of a text returned by add_newlines: the pieces between "\n".
ProducedLines(w) ==
    IF w = "" THEN <<>>
    ELSE LET n == Len(w)
             Breaks == {i \in 1..n : SubSeq(w, i, i) = "\n"}
             Nth(k) == CHOOSE p \in Breaks : Cardinality({q \in Breaks : q <= p}) = k
             From(k) == IF k = 1 THEN 1 ELSE Nth(k - 1) + 1
             To(k) == IF k = Cardinality(Breaks) + 1 THEN n ELSE Nth(k) - 1
         IN  [k \in 1..(Cardinality(Breaks) + 1) |-> SubSeq(w, From(k), To(k))]

\* Whether stem is "transcript_" and six zero-padded numbers joined by "_".
IsTimestampStem(stem) ==
    /\ Len(stem) = 30
    /\ SubSeq(stem, 1, 11) = "transcript_"
    /\ \A i \in 12..30 :
          IF i \in {16, 19, 22, 25, 28}
          THEN SubSeq(stem, i, i) = "_"
          ELSE Contains("0123456789", SubSeq(stem, i, i))

\* C1: in every state reached from the constructor through Show and
\* add_panel calls, exactly one managed window is visible and the other
\* managed windows are hidden.
ExactlyOneVisible == Cardinality({w \in Managed : visible[w]}) = 1

\* C2: after Show(v) with a managed window v, whatever was visible before,
\* v is visible and every other managed window is hidden, and a second
\* Show(v) changes nothing.
ShowMemberExclusive ==
    (last.op = "Show" /\ last.panel \in Managed) =>
        /\ visible[last.panel]
        /\ \A w \in Managed \ {last.panel} : ~visible[w]
        /\ Show(panels, visible, last.panel) = visible

\* C2, its case: Show(v) has been called with a managed v while two other
\* managed windows were visible and v was hidden.
ShowMemberReached ==
    /\ last.op = "Show"
    /\ last.panel \in Managed
    /\ ~last.before[last.panel]
    /\ Cardinality({w \in Managed : last.before[w]}) = 2

\* C3: transcribe starts a thread only with a selected file and a key in the
\* environment; with no selected file it starts none and shows "No audio file
\* selected." in red, whatever the key; with a selected file and no key it
\* starts none and shows "No API key provided." in red.
TranscribeFailsFast ==
    last.op = "transcribe" =>
        /\ Started => (last.file # None /\ last.key # None)
        /\ last.file = None =>
              /\ ~Started
              /\ error_label = "No audio file selected."
              /\ colour = Red
        /\ (last.file # None /\ last.key = None) =>
              /\ ~Started
              /\ error_label = "No API key provided."
              /\ colour = Red

\* C3, its case: transcribe has run with a selected file and no key in the
\* environment.
TranscribeWithoutKeyReached ==
    /\ last.op = "transcribe"
    /\ last.file # None
    /\ last.key = None

\* C4: no step of the worker thread changes the text or the colour of the
\* feedback label.
WorkerLeavesLabelAlone ==
    [][last'.by = "worker" => UNCHANGED <<error_label, colour>>]_vars

\* C5: when a thread whose request failed with description d has run
\* send_audio to its end, the label is red, holds the wrapped text of
\* "OPENAI error: d", and a placeholder transcript has been written.
FailureShownInRed ==
    (/\ last.op = "save_transcript_label"
     /\ threads[last.thread].e # None) =>
        /\ colour = Red
        /\ Contains(error_label,
                    add_newlines("OPENAI error: " \o threads[last.thread].e,
                                 LineLength))
        /\ \E name \in DOMAIN files : files[name] = "test"

ShowNonMemberNoOp ==
    (last.op = "Show" /\ last.panel \notin Managed) =>
        \A w \in Managed : visible[w] = last.before[w]

\* C8: add_panel(v) makes v the last managed window, hidden whatever it was
\* before, and leaves the visibility of the windows managed before as it was.
AddPanelHidden ==
    last.op = "add_panel" =>
        /\ panels[Len(panels)] = last.panel
        /\ ~visible[last.panel]
        /\ \A w \in ManagedBefore : visible[w] = last.before[w]

\* C9: no line of add_newlines(s, 50) is longer than 50 characters unless it
\* is one word longer than 50 characters, and the lines joined by spaces hold
\* the words of s in their order.
WrapWithinLineLength ==
    wrapped # None =>
        LET lines == ProducedLines(wrapped) IN
        /\ \A k \in DOMAIN lines :
              \/ Len(lines[k]) <= LineLength
              \/ split(lines[k]) = <<lines[k]>>
        /\ split(join(" ", lines)) = split(string)

\* C10: when save_transcript has chosen the name, the stem is the title of
\* the entry exactly when the title is not empty and holds no character a
\* file name cannot hold, and is transcript_YYYY_MM_DD_HH_MM_SS otherwise.
StemIsValidTitleOrTimestamp ==
    last.op = "save_transcript_write" =>
        LET stem == threads[last.thread].title
            valid == title_entry # "" /\ ~HasChar(title_entry, PathInvalid)
        IN  /\ (stem = title_entry) <=> valid
            /\ ~valid => IsTimestampStem(stem)

============================================================================
